---- MODULE Spec2Model ----
(***************************************************************************)
(* Model of lib/sockets/interpose.c: the LD_PRELOAD shim that routes the   *)
(* socket API to the TAS user-level stack with fallback to libc.           *)
(*                                                                         *)
(* Memory is sequentially consistent at statement granularity: every read  *)
(* or write of init_cnt, init_done and the libc_* table is one step.       *)
(* init_cnt is a uint32_t; a thread increments it at most once (it leaves  *)
(* ensure_init only after init_done is set), so it stays below 2^32.       *)
(* 64-bit machine words are sequences of four 16-bit limbs, most           *)
(* significant first; an int is the two low limbs.                         *)
(***************************************************************************)
EXTENDS Integers, Sequences, FiniteSets, TLC

\* ------------------------------------------------------------------ bounds
NumThreads == 2
Threads == 1..NumThreads

\* ------------------------------------------------------- program constants
AF_INET == 2
SOCK_STREAM == 1
EBADF == 9

NULL == FALSE

\* ------------------------------------------------------------- operations
\* libc_* pointers in the order init() binds them
InitOrder ==
  << "socket", "close", "shutdown", "bind", "connect", "listen", "accept4",
     "accept", "fcntl", "getsockopt", "setsockopt", "getsockname",
     "getpeername", "read", "recv", "recvfrom", "recvmsg", "write", "send",
     "sendto", "sendmsg", "select" >>

Syms == { InitOrder[i] : i \in 1..Len(InitOrder) }

\* close .. sendmsg: tas_X first, libc_X when tas_X fails with EBADF
DescriptorOps ==
  { "close", "shutdown", "bind", "connect", "listen", "accept4", "accept",
    "fcntl", "getsockopt", "setsockopt", "getsockname", "getpeername",
    "read", "recv", "recvfrom", "recvmsg", "write", "send", "sendto",
    "sendmsg" }

\* select .. epoll_pwait: return tas_X(...) and nothing else
MultiplexOps ==
  { "select", "epoll_create", "epoll_create1", "epoll_ctl", "epoll_wait",
    "epoll_pwait" }

Ops == {"socket"} \cup DescriptorOps \cup MultiplexOps

\* the functions whose body starts with ensure_init()
Gated(o) == o \in {"socket"} \cup DescriptorOps

\* fault injection: the select/epoll family given the fallback too
HasFallbackAll(o) == o # "socket"

\* the functions that test (ret == -1 && errno == EBADF) and call libc_X
HasFallback(o) == o \in DescriptorOps

\* The operations one application run issues.  Each run of the model is one
\* application; together the applications cover every intercepted function,
\* pair every function of the select/epoll family with a gated one, and
\* pair socket() with connect() (the calls tas_init() makes to reach the
\* TAS control socket).
Workloads ==
  { {"socket", "connect"},
    {"close", "select"},
    {"fcntl", "epoll_create"},
    {"shutdown", "epoll_create1"},
    {"bind", "epoll_ctl"},
    {"listen", "epoll_wait"},
    {"accept4", "epoll_pwait"},
    {"accept"}, {"getsockopt"}, {"setsockopt"}, {"getsockname"},
    {"getpeername"}, {"read"}, {"recv"}, {"recvfrom"}, {"recvmsg"},
    {"write"}, {"send"}, {"sendto"}, {"sendmsg"} }

\* The applications of the liveness check: ensure_init() does not depend on
\* the function that calls it, so one application per shape of wrapper
\* (socket, a gated function with the select family, a gated function).
WaitWorkloads == { {"socket"}, {"close", "select"}, {"send"} }

\* ------------------------------------------------------------ input values
\* socket(domain, type, protocol) with domain AF_UNIX (1), AF_INET or
\* AF_INET6 (10), type SOCK_STREAM, SOCK_DGRAM (2) or
\* SOCK_STREAM | SOCK_NONBLOCK (2049), protocol 0 or IPPROTO_TCP (6)
SocketArgs ==
  { <<AF_INET, SOCK_STREAM, 0>>, <<AF_INET, SOCK_STREAM, 6>>,
    <<AF_INET, 2, 0>>, <<AF_INET, 2049, 6>>,
    <<1, SOCK_STREAM, 0>>, <<1, 2, 0>>,
    <<10, SOCK_STREAM, 6>> }

\* descriptors: 3 is a plain libc descriptor, 4 is a TAS socket
Fds == {3, 4}

\* 64-bit argument words: the int 1 and a user-space pointer
\* 0x00007f1234567890
WordOne == <<0, 0, 0, 1>>
WordPointer == <<0, 32530, 13398, 30864>>
ArgWords == {WordOne, WordPointer}

\* the trailing argument an application passes to operation o
ArgsOf(o) == IF o = "fcntl" THEN ArgWords ELSE {WordOne}

\* -------------------------------------------------------------- conversions
\* arg = va_arg(val, int): the low 32 bits of the word
VaArgInt(w) == <<w[3], w[4]>>

\* An int passed through "..." to a callee that reads a 64-bit word: the
\* upper half of the register is unspecified by the ABI; compilers emit a
\* zero-extending or a sign-extending move.
WidenInt(i) ==
  { <<0, 0, i[1], i[2]>>,
    <<(IF i[1] >= 32768 THEN 65535 ELSE 0),
      (IF i[1] >= 32768 THEN 65535 ELSE 0), i[1], i[2]>> }

\* the words the backend can receive for the trailing argument w of o
PassedArgs(o, w) == IF o = "fcntl" THEN WidenInt(VaArgInt(w)) ELSE {w}

\* ------------------------------------------------------------------ state
VARIABLES
  app,        \* the operations this application issues
  init_cnt,   \* static volatile uint32_t init_cnt
  init_done,  \* static volatile uint8_t init_done
  in_init,    \* static __thread uint8_t in_init, per thread
  libc,       \* the libc_* pointers: NULL or resolved (TRUE)
  pc,         \* per thread: where it is in the intercepted call
  op,         \* per thread: the intercepted function it is in
  outer,      \* per thread: the call suspended in tas_init() by a nested call
  ipos,       \* per thread: how many bind_symbol() calls of init() returned
  errno,      \* per thread: errno
  call,       \* per thread: what the current call has done so far
  tas_up,     \* TAS is started: tas_init() has returned 0
  aborted,    \* abort() was called
  fault,      \* a NULL libc_* pointer was called
  failure,    \* dlsym returned NULL or tas_init returned nonzero
  initBy      \* the threads that entered init(), in order

vars ==
  << app, init_cnt, init_done, in_init, libc, pc, op, outer, ipos, errno,
     call, tas_up, aborted, fault, failure, initBy >>

NoRes == [ret |-> 0, err |-> 0]

NoCall ==
  [ args |-> <<>>,
    tasN |-> 0, tasArgs |-> <<>>, tasRes |-> NoRes, tasAt |-> "none",
    natN |-> 0, natArgs |-> <<>>, natRes |-> NoRes, natBound |-> TRUE,
    res |-> NoRes ]

\* GlobalInitState of the design, read off the two flags
GlobalInitState ==
  IF init_done # 0 THEN "Ready"
  ELSE IF init_cnt # 0 THEN "Initializing"
  ELSE "Uninitialized"

\* the process before its first intercepted call
Fresh ==
  /\ init_cnt = 0
  /\ init_done = 0
  /\ in_init = [t \in Threads |-> 0]
  /\ libc = [s \in Syms |-> NULL]
  /\ pc = [t \in Threads |-> "idle"]
  /\ op = [t \in Threads |-> "none"]
  /\ outer = [t \in Threads |-> "none"]
  /\ ipos = [t \in Threads |-> 0]
  /\ errno = [t \in Threads |-> 0]
  /\ call = [t \in Threads |-> NoCall]
  /\ tas_up = FALSE
  /\ aborted = FALSE
  /\ fault = FALSE
  /\ failure = FALSE
  /\ initBy = <<>>

Init == app \in Workloads /\ Fresh

Alive == ~aborted /\ ~fault

\* ---------------------------------------------------------- the backends
\* What a backend call returns: a status and the errno it sets (0: errno is
\* left alone).  3 stands for any non-negative result.
Success == [ret |-> 3, err |-> 0]
Sentinel == [ret |-> -1, err |-> EBADF]
\* a genuine error: EINVAL (22)
Genuine == [ret |-> -1, err |-> 22]

\* TAS owns descriptor 4
TasOwned == {4}

\* tas_X(args): the sentinel for a descriptor TAS does not own, and only for
\* those; tas_socket takes no descriptor; the epoll/select family also
\* serves descriptors TAS does not own.
TasOutcomes(o, fd) ==
  IF o = "socket" THEN {Success, Genuine}
  ELSE IF o \in MultiplexOps
    THEN IF fd \in TasOwned THEN {Success, Genuine}
         ELSE {Success, Genuine, Sentinel}
  ELSE IF fd \in TasOwned THEN {Success, Genuine}
  ELSE {Sentinel}

\* libc_X(args): libc is opaque
NativeOutcomes == {Success, Genuine, Sentinel}

\* errno after a backend call that returned r
ErrnoAfter(e, r) == IF r.ret = -1 THEN r.err ELSE e

\* ------------------------------------------------------- the code's tests
\* fault injection: the fast path of ensure_init() left out
NeedsInitAlways(done) == TRUE

\* if (init_done == 0)
NeedsInit(done) == done = 0

\* fault injection: the in_init test left out
ReentrantIgnored(flag) == FALSE

\* if (in_init)
Reentrant(flag) == flag # 0

\* fault injection: the old value compared off by one
WonRaceOffByOne(old) == old <= 1

\* if (__sync_fetch_and_add(&init_cnt, 1) == 0)
WonRace(old) == old = 0

\* fault injection: the wait loop left out
NotReadySkipped(done) == FALSE

\* fault injection: init_done read once, before the loop, while it was 0
NotReadyStale(done) == TRUE

\* while (init_done == 0)
NotReady(done) == done = 0

\* if ((ptr = dlsym(RTLD_NEXT, sym)) == NULL)
DlsymFailed(ptr) == ptr = NULL

\* fault injection: tas_init() called right after the first bind_symbol()
BindsDoneEarly(n) == n >= 1

\* init() reaches tas_init() when n bind_symbol() calls have returned
BindsDone(n) == n = Len(InitOrder)

\* fault injection: only positive return codes taken as failure
StartupFailedPositive(rc) == rc > 0

\* if (tas_init() != 0)
StartupFailed(rc) == rc # 0

\* fault injection: the type test left out
IsTcpSocketAnyType(domain, type) == domain = AF_INET

\* the negation of (domain != AF_INET || type != SOCK_STREAM)
IsTcpSocket(domain, type) == domain = AF_INET /\ type = SOCK_STREAM

\* fault injection: the errno test left out
IsSentinelAnyErrno(ret, e) == ret = -1

\* fault injection: the errno test inverted
IsSentinelInverted(ret, e) == ret = -1 /\ e # EBADF

\* ret == -1 && errno == EBADF
IsSentinel(ret, e) == ret = -1 /\ e = EBADF

\* ------------------------------------------------------------ entry, exit
\* the first statement of operation o
Entry(o) == IF Gated(o) THEN "ei_check" ELSE "disp"

\* The application calls intercepted function o on thread t.
Call(t, o) ==
  /\ Alive
  /\ pc[t] = "idle"
  /\ o \in app
  /\ op' = [op EXCEPT ![t] = o]
  /\ call' = [call EXCEPT ![t] = NoCall]
  /\ pc' = [pc EXCEPT ![t] = Entry(o)]
  /\ UNCHANGED << app, init_cnt, init_done, in_init, libc, outer, ipos,
                  errno, tas_up, aborted, fault, failure, initBy >>

\* tas_init(), running on thread t inside init(), calls intercepted
\* function o (its own bootstrap traffic).
NestedCall(t, o) ==
  /\ Alive
  /\ pc[t] = "tas_init"
  /\ o \in app
  /\ outer' = [outer EXCEPT ![t] = op[t]]
  /\ op' = [op EXCEPT ![t] = o]
  /\ call' = [call EXCEPT ![t] = NoCall]
  /\ pc' = [pc EXCEPT ![t] = Entry(o)]
  /\ UNCHANGED << app, init_cnt, init_done, in_init, libc, ipos, errno,
                  tas_up, aborted, fault, failure, initBy >>

\* The intercepted function returns to its caller, the application or
\* tas_init() for a nested call; the caller reads the status and errno and
\* clears errno.
Return(t) ==
  /\ Alive
  /\ pc[t] = "done"
  /\ IF outer[t] # "none"
       THEN /\ op' = [op EXCEPT ![t] = outer[t]]
            /\ outer' = [outer EXCEPT ![t] = "none"]
            /\ pc' = [pc EXCEPT ![t] = "tas_init"]
       ELSE /\ op' = [op EXCEPT ![t] = "none"]
            /\ outer' = outer
            /\ pc' = [pc EXCEPT ![t] = "idle"]
  /\ call' = [call EXCEPT ![t] = NoCall]
  /\ errno' = [errno EXCEPT ![t] = 0]
  /\ UNCHANGED << app, init_cnt, init_done, in_init, libc, ipos, tas_up,
                  aborted, fault, failure, initBy >>

\* ------------------------------------------------------------ ensure_init
\* if (init_done == 0) { if (in_init) return; ... }
EnsureInitCheck(t) ==
  /\ Alive
  /\ pc[t] = "ei_check"
  /\ IF ~NeedsInit(init_done)
       THEN pc' = [pc EXCEPT ![t] = "disp"]
       ELSE IF Reentrant(in_init[t])
         THEN pc' = [pc EXCEPT ![t] = "disp"]
         ELSE pc' = [pc EXCEPT ![t] = "ei_faa"]
  /\ UNCHANGED << app, init_cnt, init_done, in_init, libc, op, outer, ipos,
                  errno, call, tas_up, aborted, fault, failure, initBy >>

\* if (__sync_fetch_and_add(&init_cnt, 1) == 0) { in_init = 1; init(); ...
\* } else { while ...
FetchAndAdd(t) ==
  /\ Alive
  /\ pc[t] = "ei_faa"
  /\ init_cnt' = init_cnt + 1
  /\ IF WonRace(init_cnt)
       THEN /\ in_init' = [in_init EXCEPT ![t] = 1]
            /\ ipos' = [ipos EXCEPT ![t] = 0]
            /\ initBy' = Append(initBy, t)
            /\ pc' = [pc EXCEPT ![t] = "init"]
       ELSE /\ pc' = [pc EXCEPT ![t] = "ei_wait"]
            /\ UNCHANGED << in_init, ipos, initBy >>
  /\ UNCHANGED << app, init_done, libc, op, outer, errno, call, tas_up,
                  aborted, fault, failure >>

\* while (init_done == 0) { pthread_yield(); }  MEM_BARRIER();
WaitReady(t) ==
  /\ Alive
  /\ pc[t] = "ei_wait"
  /\ IF NotReady(init_done)
       THEN pc' = pc
       ELSE pc' = [pc EXCEPT ![t] = "disp"]
  /\ UNCHANGED << app, init_cnt, init_done, in_init, libc, op, outer, ipos,
                  errno, call, tas_up, aborted, fault, failure, initBy >>

\* ------------------------------------------------------------------- init
\* libc_X = bind_symbol("X"): dlsym finds the symbol or not; bind_symbol
\* aborts when it does not.
BindSymbol(t) ==
  /\ Alive
  /\ pc[t] = "init"
  /\ ipos[t] < Len(InitOrder)
  /\ \E ptr \in {NULL, TRUE} :
       /\ failure' = (failure \/ ptr = NULL)
       /\ IF DlsymFailed(ptr)
            THEN /\ aborted' = TRUE
                 /\ UNCHANGED << libc, ipos, pc >>
            ELSE /\ libc' = [libc EXCEPT ![InitOrder[ipos[t] + 1]] = ptr]
                 /\ ipos' = [ipos EXCEPT ![t] = ipos[t] + 1]
                 /\ pc' = [pc EXCEPT ![t] =
                             IF BindsDone(ipos[t] + 1)
                               THEN "tas_init" ELSE "init"]
                 /\ aborted' = aborted
  /\ UNCHANGED << app, init_cnt, init_done, in_init, op, outer, errno, call,
                  tas_up, fault, initBy >>

\* if (tas_init() != 0) abort();
TasInitReturn(t) ==
  /\ Alive
  /\ pc[t] = "tas_init"
  /\ \E rc \in {0, -1} :
       /\ failure' = (failure \/ rc # 0)
       /\ tas_up' = (rc = 0)
       /\ IF StartupFailed(rc)
            THEN /\ aborted' = TRUE
                 /\ pc' = pc
            ELSE /\ pc' = [pc EXCEPT ![t] = "init_ret"]
                 /\ aborted' = aborted
  /\ UNCHANGED << app, init_cnt, init_done, in_init, libc, op, outer, ipos,
                  errno, call, fault, initBy >>

\* in_init = 0;
ClearInInit(t) ==
  /\ Alive
  /\ pc[t] = "init_ret"
  /\ in_init' = [in_init EXCEPT ![t] = 0]
  /\ pc' = [pc EXCEPT ![t] = "publish"]
  /\ UNCHANGED << app, init_cnt, init_done, libc, op, outer, ipos, errno,
                  call, tas_up, aborted, fault, failure, initBy >>

\* MEM_BARRIER(); init_done = 1;
Publish(t) ==
  /\ Alive
  /\ pc[t] = "publish"
  /\ init_done' = 1
  /\ pc' = [pc EXCEPT ![t] = "disp"]
  /\ UNCHANGED << app, init_cnt, in_init, libc, op, outer, ipos, errno,
                  call, tas_up, aborted, fault, failure, initBy >>

\* --------------------------------------------------------------- dispatch
\* the call record after tas_X(a) returned r with errno e before the call
AfterTas(c, a, r, e) ==
  [c EXCEPT !.tasN = @ + 1, !.tasArgs = a, !.tasRes = r,
            !.tasAt = GlobalInitState,
            !.res = [ret |-> r.ret, err |-> ErrnoAfter(e, r)]]

\* the call record after libc_X(a) returned r with errno e before the call
AfterNative(c, a, r, e) ==
  [c EXCEPT !.natN = @ + 1, !.natArgs = a, !.natRes = r,
            !.res = [ret |-> r.ret, err |-> ErrnoAfter(e, r)]]

\* the pointer libc_X that operation o calls; the epoll functions have none
NativePtr(o) == IF o \in Syms THEN libc[o] ELSE NULL

\* the call record when the NULL pointer libc_X is called with a
AfterNullCall(c, a) ==
  [c EXCEPT !.natN = @ + 1, !.natArgs = a, !.natBound = FALSE]

\* socket(): if (domain != AF_INET || type != SOCK_STREAM)
\*   return libc_socket(...); return tas_socket(...);
SocketDispatch(t) ==
  /\ Alive
  /\ pc[t] = "disp"
  /\ op[t] = "socket"
  /\ \E a \in SocketArgs :
       LET c == [call[t] EXCEPT !.args = a]
       IN IF ~IsTcpSocket(a[1], a[2])
            THEN IF NativePtr("socket") = NULL
              THEN /\ fault' = TRUE
                   /\ call' = [call EXCEPT ![t] = AfterNullCall(c, a)]
                   /\ UNCHANGED << pc, errno >>
              ELSE \E r \in NativeOutcomes :
                   /\ call' = [call EXCEPT ![t] =
                                 AfterNative(c, a, r, errno[t])]
                   /\ errno' = [errno EXCEPT ![t] = ErrnoAfter(@, r)]
                   /\ pc' = [pc EXCEPT ![t] = "done"]
                   /\ fault' = fault
            ELSE \E r \in TasOutcomes("socket", 0) :
                   /\ call' = [call EXCEPT ![t] = AfterTas(c, a, r, errno[t])]
                   /\ errno' = [errno EXCEPT ![t] = ErrnoAfter(@, r)]
                   /\ pc' = [pc EXCEPT ![t] = "done"]
                   /\ fault' = fault
  /\ UNCHANGED << app, init_cnt, init_done, in_init, libc, op, outer, ipos,
                  tas_up, aborted, failure, initBy >>

\* ret = tas_X(sockfd, ...): every function but socket()
TasCall(t) ==
  /\ Alive
  /\ pc[t] = "disp"
  /\ op[t] # "socket"
  /\ \E fd \in Fds, w \in ArgsOf(op[t]) :
       \E pa \in PassedArgs(op[t], w), r \in TasOutcomes(op[t], fd) :
         /\ call' = [call EXCEPT ![t] =
                       AfterTas([call[t] EXCEPT !.args = <<fd, w>>],
                                <<fd, pa>>, r, errno[t])]
         /\ errno' = [errno EXCEPT ![t] = ErrnoAfter(@, r)]
  /\ pc' = [pc EXCEPT ![t] = IF HasFallback(op[t]) THEN "chk" ELSE "done"]
  /\ UNCHANGED << app, init_cnt, init_done, in_init, libc, op, outer, ipos,
                  tas_up, aborted, fault, failure, initBy >>

\* if (ret == -1 && errno == EBADF) return libc_X(sockfd, ...); return ret;
Fallback(t) ==
  /\ Alive
  /\ pc[t] = "chk"
  /\ IF IsSentinel(call[t].tasRes.ret, errno[t])
       THEN \E pa \in PassedArgs(op[t], call[t].args[2]) :
            LET a == <<call[t].args[1], pa>>
            IN IF NativePtr(op[t]) = NULL
                 THEN /\ fault' = TRUE
                      /\ call' = [call EXCEPT ![t] = AfterNullCall(@, a)]
                      /\ UNCHANGED << pc, errno >>
                 ELSE \E r \in NativeOutcomes :
                      /\ call' = [call EXCEPT ![t] =
                                    AfterNative(@, a, r, errno[t])]
                      /\ errno' = [errno EXCEPT ![t] = ErrnoAfter(@, r)]
                      /\ pc' = [pc EXCEPT ![t] = "done"]
                      /\ fault' = fault
       ELSE /\ pc' = [pc EXCEPT ![t] = "done"]
            /\ UNCHANGED << call, errno, fault >>
  /\ UNCHANGED << app, init_cnt, init_done, in_init, libc, op, outer, ipos,
                  tas_up, aborted, failure, initBy >>

\* ---------------------------------------------------------- specification
Next ==
  \E t \in Threads :
    \/ \E o \in Ops : Call(t, o)
    \/ \E o \in Ops : NestedCall(t, o)
    \/ Return(t)
    \/ EnsureInitCheck(t)
    \/ FetchAndAdd(t)
    \/ WaitReady(t)
    \/ BindSymbol(t)
    \/ TasInitReturn(t)
    \/ ClearInInit(t)
    \/ Publish(t)
    \/ SocketDispatch(t)
    \/ TasCall(t)
    \/ Fallback(t)

Spec == Init /\ [][Next]_vars

\* Preemptive OS threads: a thread that can take its next step inside
\* ensure_init() eventually takes it.  A pass through the wait loop that
\* finds init_done still 0 changes nothing, so fairness of WaitReady only
\* concerns leaving the loop.
WaitInit == app \in WaitWorkloads /\ Fresh

FairSpec ==
  /\ WaitInit
  /\ [][Next]_vars
  /\ \A t \in Threads :
       /\ WF_vars(WaitReady(t))
       /\ WF_vars(ClearInInit(t))
       /\ WF_vars(Publish(t))

\* ================================================================ claims
\* every libc_* pointer is resolved
AllBound == \A s \in Syms : libc[s] # NULL

\* thread t ran, or is running, init()
IsInitializer(t) == \E i \in 1..Len(initBy) : initBy[i] = t

\* thread t is inside a call that tas_init() issued
Nested(t) == outer[t] # "none"

\* thread t has returned from ensure_init() in a gated call
PastGate(t) == Gated(op[t]) /\ pc[t] \in {"disp", "chk", "done"}

\* the caller of the call recorded in c receives the backend result r: the
\* status of r and, when that status is -1, the errno of r (errno says
\* nothing after a success)
Delivers(c, r) == c.res.ret = r.ret /\ (r.ret = -1 => c.res.err = r.err)

\* C1: however the threads' first gated calls interleave, init() is entered
\* at most once; as soon as one thread has incremented init_cnt exactly one
\* thread is the Initializer, and only that thread is ever inside init().
C1_InitExactlyOnce ==
  /\ Len(initBy) <= 1
  /\ (init_cnt > 0 => Len(initBy) = 1)
  /\ \A t \in Threads :
       (pc[t] \in {"init", "tas_init", "init_ret", "publish"} \/ in_init[t] # 0)
         => initBy = <<t>>
  /\ \A t \in Threads : PastGate(t) => Len(initBy) = 1

\* two threads raced through the counter: one runs init(), the other waits
C1_Witness ==
  \E t, u \in Threads :
    /\ t # u
    /\ pc[t] = "init"
    /\ pc[u] = "ei_wait"
    /\ init_cnt = 2

\* C2: a thread other than the Initializer that has returned from
\* ensure_init() finds all 22 libc_* pointers resolved and tas_init()
\* returned with success.
C2_TableReadyForOthers ==
  \A t \in Threads :
    (PastGate(t) /\ ~IsInitializer(t)) => (AllBound /\ tas_up /\ ~fault)

\* a thread that lost the race is past the gate
C2_Witness ==
  \E t \in Threads :
    /\ ~IsInitializer(t)
    /\ Len(initBy) = 1
    /\ Gated(op[t])
    /\ pc[t] = "disp"

\* C3: socket(AF_INET, SOCK_STREAM, any protocol) calls tas_socket and not
\* libc_socket; socket() with any other domain or type calls libc_socket
\* and not tas_socket; either way with the caller's arguments.
C3_SocketRouting ==
  \A t \in Threads :
    (op[t] = "socket" /\ pc[t] = "done") =>
      IF call[t].args[1] = AF_INET /\ call[t].args[2] = SOCK_STREAM
        THEN /\ call[t].tasN = 1
             /\ call[t].natN = 0
             /\ call[t].tasArgs = call[t].args
        ELSE /\ call[t].tasN = 0
             /\ call[t].natN = 1
             /\ call[t].natArgs = call[t].args

\* one thread created a TCP socket with protocol 6 through TAS while another
\* created an AF_INET socket of type SOCK_STREAM | SOCK_NONBLOCK through libc
C3_Witness ==
  \E t, u \in Threads :
    /\ op[t] = "socket" /\ pc[t] = "done"
    /\ call[t].args = <<AF_INET, SOCK_STREAM, 6>>
    /\ call[t].tasN = 1
    /\ op[u] = "socket" /\ pc[u] = "done"
    /\ call[u].args = <<AF_INET, 2049, 6>>
    /\ call[u].natN = 1

\* C4: when tas_X fails with EBADF in one of close .. sendmsg, the caller
\* receives the status and errno of libc_X called with the arguments the
\* caller passed.
C4_FallbackEqualsNative ==
  \A t \in Threads :
    (op[t] \in DescriptorOps /\ pc[t] = "done" /\ call[t].tasRes = Sentinel)
      => /\ call[t].natN = 1
         /\ call[t].natArgs = call[t].args
         /\ Delivers(call[t], call[t].natRes)

\* C5: a call of close .. sendmsg on a descriptor TAS owns never calls
\* libc_X, whether tas_X succeeds or fails.
C5_OwnedNeverNative ==
  \A t \in Threads :
    (op[t] \in DescriptorOps /\ pc[t] \in {"chk", "done"}
       /\ call[t].args[1] \in TasOwned)
      => /\ call[t].natN = 0
         /\ call[t].tasN = 1

\* a call on the TAS socket 4 returned a genuine error from tas_X
C5_Witness ==
  \E t \in Threads :
    /\ op[t] \in DescriptorOps
    /\ pc[t] = "done"
    /\ call[t].args[1] = 4
    /\ call[t].tasRes = Genuine
    /\ Delivers(call[t], Genuine)

\* C6: select and the epoll functions call tas_X exactly once and never a
\* libc function, in every initialization state and also when tas_X fails
\* with EBADF; the caller receives the result of tas_X.
C6_MultiplexOnlyTas ==
  \A t \in Threads :
    op[t] \in MultiplexOps =>
      /\ pc[t] \in {"disp", "done"}
      /\ call[t].natN = 0
      /\ pc[t] = "done" =>
           /\ call[t].tasN = 1
           /\ Delivers(call[t], call[t].tasRes)

\* an epoll/select call got EBADF from TAS while another thread was inside
\* init()
C6_Witness ==
  \E t \in Threads :
    /\ op[t] \in MultiplexOps
    /\ pc[t] = "done"
    /\ call[t].tasRes = Sentinel
    /\ call[t].tasAt = "Initializing"
    /\ init_done = 0
    /\ \E u \in Threads : u # t /\ pc[u] = "init"

\* C7: a gated call that tas_init() issues on the Initializer, with in_init
\* set and init_done still 0, leaves ensure_init() at its in_init test: it
\* never reaches the fetch-and-add, the wait loop or init().
C7_ReentrantReturnsAtOnce ==
  \A t \in Threads :
    Nested(t) =>
      /\ pc[t] \in {"ei_check", "disp", "chk", "done"}
      /\ in_init[t] = 1
      /\ init_done = 0
      /\ initBy = <<t>>
      /\ init_cnt >= 1

\* a nested gated call has completed while init_done is still 0
C7_Witness ==
  \E t \in Threads :
    /\ Nested(t)
    /\ Gated(op[t])
    /\ pc[t] = "done"
    /\ init_done = 0

\* C8: once dlsym has returned NULL or tas_init() nonzero the process has
\* aborted inside init(): init_done is 0, init() was entered once, and no
\* other thread in a gated call has got past ensure_init() or called a
\* backend.
C8_FailureIsFatal ==
  failure =>
    /\ aborted
    /\ init_done = 0
    /\ Len(initBy) = 1
    /\ \A t \in Threads :
         (Gated(op[t]) /\ ~IsInitializer(t)) =>
           /\ pc[t] \in {"ei_check", "ei_faa", "ei_wait"}
           /\ call[t].tasN = 0
           /\ call[t].natN = 0

\* tas_init() failed while another thread was waiting in ensure_init()
C8_Witness ==
  /\ failure
  /\ AllBound
  /\ \E t \in Threads : pc[t] = "ei_wait"

\* C9 as stated: whenever tas_X fails with EBADF, in any intercepted
\* function, libc_X is called and the caller receives its result.
C9_SentinelNeverSurfaces ==
  \A t \in Threads :
    (pc[t] = "done" /\ call[t].tasN = 1 /\ call[t].tasRes = Sentinel)
      => /\ call[t].natN = 1
         /\ Delivers(call[t], call[t].natRes)

\* C9 amended: in close .. sendmsg a failure of tas_X with EBADF is
\* replaced by the result of libc_X; socket(), select and the epoll
\* functions have no fallback and return the result of tas_X as it is, an
\* EBADF failure included.
C9_SentinelConsumedByFallbackOps ==
  \A t \in Threads :
    (pc[t] = "done" /\ call[t].tasN = 1) =>
      IF op[t] \in DescriptorOps
        THEN call[t].tasRes = Sentinel =>
               /\ call[t].natN = 1
               /\ Delivers(call[t], call[t].natRes)
        ELSE /\ call[t].natN = 0
             /\ Delivers(call[t], call[t].tasRes)

\* one thread's descriptor call fell back to libc and succeeded while
\* another thread's epoll/select call returned the EBADF of TAS
C9_Witness ==
  \E t, u \in Threads :
    /\ op[t] \in DescriptorOps /\ pc[t] = "done"
    /\ call[t].tasRes = Sentinel
    /\ Delivers(call[t], Success)
    /\ op[u] \in MultiplexOps /\ pc[u] = "done"
    /\ Delivers(call[u], Sentinel)

\* C10: a thread that is not inside init() calls a TAS operation only when
\* init_done is set.
C10_ReadyBeforeManagedStack ==
  \A t \in Threads :
    (call[t].tasN > 0 /\ in_init[t] = 0) => call[t].tasAt = "Ready"

\* C11: when tas_X succeeds, or fails with an errno other than EBADF, in one
\* of close .. sendmsg, the caller receives the status and errno of tas_X
\* and libc_X is not called.
C11_GenuineResultsUnchanged ==
  \A t \in Threads :
    (op[t] \in DescriptorOps /\ pc[t] = "done"
       /\ call[t].tasRes \in {Success, Genuine})
      => /\ call[t].tasN = 1
         /\ call[t].natN = 0
         /\ Delivers(call[t], call[t].tasRes)
         /\ call[t].res.ret = call[t].tasRes.ret

\* a descriptor call returned the success of tas_X and another the genuine
\* error of tas_X, both without a libc call
C11_Witness ==
  \E t, u \in Threads :
    /\ op[t] \in DescriptorOps /\ pc[t] = "done"
    /\ call[t].tasRes = Success /\ call[t].res.ret = 3 /\ call[t].natN = 0
    /\ op[u] \in DescriptorOps /\ pc[u] = "done"
    /\ call[u].tasRes = Genuine /\ call[u].res = Genuine

\* the place of GlobalInitState in Uninitialized -> Initializing -> Ready
StateRank ==
  IF GlobalInitState = "Ready" THEN 2
  ELSE IF GlobalInitState = "Initializing" THEN 1
  ELSE 0

\* C12: GlobalInitState only moves Uninitialized -> Initializing -> Ready,
\* one stage at a time and never back; once init_done is 1 it stays 1 and
\* no thread enters init() again.
C12_InitStateMonotonic ==
  [][ /\ StateRank' >= StateRank
      /\ StateRank' <= StateRank + 1
      /\ init_done # 0 => (init_done' = 1 /\ initBy' = initBy)
      /\ Len(initBy) = 1 => initBy' = initBy ]_vars

\* after init_done was published with two threads having contended, a gated
\* call has gone through TAS in state Ready
C12_Witness ==
  /\ init_done = 1
  /\ init_cnt = 2
  /\ \E t \in Threads :
       /\ Gated(op[t])
       /\ pc[t] = "done"
       /\ call[t].tasAt = "Ready"

\* C13: one intercepted call calls tas_X at most once and libc_X at most
\* once; in close .. sendmsg libc_X is called only after tas_X of the same
\* call failed with EBADF, and when libc_X fails the call returns that
\* failure without calling either backend again.
C13_AtMostOneFallback ==
  \A t \in Threads :
    /\ call[t].tasN <= 1
    /\ call[t].natN <= 1
    /\ (op[t] \in DescriptorOps /\ call[t].natN = 1) =>
         /\ call[t].tasN = 1
         /\ call[t].tasRes = Sentinel
         /\ pc[t] = "done" \/ fault
    /\ (op[t] \in DescriptorOps /\ pc[t] = "done" /\ call[t].natN = 1
          /\ call[t].natRes.ret = -1) =>
         call[t].res = call[t].natRes

\* a fallback to libc_X failed with a genuine error, which the call returned
C13_Witness ==
  \E t \in Threads :
    /\ op[t] \in DescriptorOps
    /\ pc[t] = "done"
    /\ call[t].tasN = 1 /\ call[t].tasRes = Sentinel
    /\ call[t].natN = 1 /\ call[t].natRes = Genuine
    /\ call[t].res = Genuine

\* C14: under fair scheduling, once tas_init() has returned 0 (so init()
\* returns), every thread in the wait loop of ensure_init() eventually
\* sees init_done set and returns from ensure_init().
C14_WaitersEventuallyProceed ==
  \A t \in Threads :
    (pc[t] = "ei_wait" /\ tas_up) ~> (pc[t] = "disp")

\* a thread is still in the wait loop when init_done has been published
C14_Witness ==
  \E t \in Threads :
    /\ pc[t] = "ei_wait"
    /\ init_done = 1
    /\ tas_up

\* C15: tas_init() runs only when all 22 libc_* pointers are resolved, so a
\* libc_X pointer that a nested call of tas_init() calls (socket() with
\* another domain or type, or the fallback after EBADF) is never NULL.
C15_NestedNativeResolved ==
  /\ ~fault
  /\ \A t \in Threads :
       /\ (pc[t] = "tas_init" \/ Nested(t)) => AllBound
       /\ (Nested(t) /\ call[t].natN > 0) =>
            (call[t].natBound /\ NativePtr(op[t]) # NULL)

\* inside tas_init(), with init_done still 0, a nested connect() on a
\* descriptor TAS does not own has fallen back to libc_connect
C15_Witness ==
  \E t \in Threads :
    /\ Nested(t)
    /\ op[t] = "connect"
    /\ pc[t] = "done"
    /\ call[t].tasRes = Sentinel
    /\ call[t].natN = 1
    /\ init_done = 0

\* C16: a call nested in tas_init() (in_init set, init_done still 0) calls
\* no tas_X function: tas_init() has not returned yet.
C16_NestedNoManagedStack ==
  \A t \in Threads :
    (Nested(t) /\ in_init[t] # 0 /\ init_done = 0) => call[t].tasN = 0

\* C17: tas_fcntl and, after EBADF, libc_fcntl receive the third argument
\* the caller passed to fcntl(), whatever 64-bit value it is.
C17_FcntlArgPreserved ==
  \A t \in Threads :
    op[t] = "fcntl" =>
      /\ call[t].tasN > 0 => call[t].tasArgs = call[t].args
      /\ call[t].natN > 0 => call[t].natArgs = call[t].args

\* C18 (as stated): once init_done is set, no step changes init_done,
\* init_cnt or a libc_* pointer.
C18_ReadyFreezesInitState ==
  [][init_done # 0 => UNCHANGED << init_done, init_cnt, libc >>]_vars

\* C18 (amended): once init_done is set, init_done and the libc_* pointers
\* never change, and a call that reads init_done in ensure_init() returns
\* from it at once without touching init_cnt; init_cnt then changes only by
\* the fetch-and-add of a thread that had read init_done == 0 before, which
\* goes on to the wait loop. The libc_* pointers are written only by the
\* thread running init(), while init_done is 0 and init_cnt is not.
C18_ReadyFreezesFlagAndTable ==
  [][ /\ init_done # 0 =>
           /\ init_done' = init_done
           /\ libc' = libc
           /\ \A t \in Threads :
                (pc[t] = "ei_check" /\ pc'[t] # "ei_check") =>
                  (pc'[t] = "disp" /\ init_cnt' = init_cnt)
           /\ init_cnt' # init_cnt =>
                /\ init_cnt' = init_cnt + 1
                /\ \E t \in Threads :
                     pc[t] = "ei_faa" /\ pc'[t] = "ei_wait"
      /\ libc' # libc =>
           /\ init_done = 0 /\ init_cnt # 0
           /\ \E t \in Threads :
                IsInitializer(t) /\ in_init[t] # 0 /\ pc[t] = "init" ]_vars

\* init_done is set and a thread that never reached the fetch-and-add has
\* passed ensure_init() on the fast path: init_cnt is still 1
C18_Witness ==
  /\ init_done = 1
  /\ init_cnt = 1
  /\ \E t \in Threads :
       ~IsInitializer(t) /\ Gated(op[t]) /\ pc[t] = "disp"

\* C19: in_init of a thread is set only while that thread, the one that won
\* the fetch-and-add, is between "in_init = 1" and "in_init = 0" of
\* ensure_init(), init_done still 0; no two threads have it set, and no
\* thread has it set once init_done is 1.
C19_FlagOnlyInInit ==
  /\ \A t \in Threads :
       in_init[t] # 0 =>
         /\ initBy = << t >>
         /\ init_done = 0
         /\ init_cnt # 0
         /\ \/ pc[t] \in {"init", "tas_init", "init_ret"}
            \/ Nested(t)
  /\ \A t, u \in Threads : (in_init[t] # 0 /\ in_init[u] # 0) => t = u
  /\ init_done # 0 => \A t \in Threads : in_init[t] = 0
  /\ \A t \in Threads : pc[t] = "publish" => in_init[t] = 0

\* the Initializer has cleared in_init and set init_done while another
\* thread is still in the wait loop
C19_Witness ==
  /\ init_done = 1
  /\ Len(initBy) = 1
  /\ in_init[initBy[1]] = 0
  /\ \E t \in Threads : pc[t] = "ei_wait" /\ in_init[t] = 0

====
